---- MODULE Spec2Model ----
(***************************************************************************)
(* A model of asgi_tools: the middleware chain (BaseMiddeware and its      *)
(* subclasses, combine, AppMiddleware), the lifespan loop, the routing     *)
(* stage, the Request facade and parse_options_header.  One connection is  *)
(* handled by one task:                                                    *)
(* the chain of awaits is a stack of frames, and every action is one step  *)
(* of the coroutine on top of the stack.                                   *)
(***************************************************************************)
EXTENDS Integers, Sequences, FiniteSets, TLC

VARIABLES
    config,     \* what the application was built from: the arguments of its constructor
    chain,      \* the composed application: stages, outermost first, then the terminal app
    _startup,   \* LifespanMiddleware._startup
    _shutdown,  \* LifespanMiddleware._shutdown
    routes,     \* the route table of RouterMiddleware.router, in registration order
    objs,       \* the scope objects alive: objs[1] is the transport's scope
    stack,      \* the awaiting coroutines, innermost last
    outcome,    \* what the outermost call did: running, returned or raised
    log,        \* the observable events, in order
    nrecv,      \* how many events receive() has delivered
    req,        \* the Request of the connection: its receive, its charset and its caches
    inbox       \* the body events the transport has for the connection, in order

vars == <<config, chain, _startup, _shutdown, routes, objs, stack, outcome, log, nrecv,
          req, inbox>>

----------------------------------------------------------------------------
(* Bounds of the model. *)

\* how many user-supplied stages a chain is given
MaxUser == 2
\* how many events the transport delivers on one connection
MaxMsgs == 3
\* how many callbacks one lifespan registry holds
MaxCallbacks == 2
\* how many times route() is called before the connection
MaxRoutes == 2
\* how many body events the transport has for a request
MaxChunks == 2
\* how many times the accessors of a Request are called
MaxCalls == 3
\* how many tasks of the application hold one Request
MaxTasks == 2

----------------------------------------------------------------------------
(* Values. *)

Last(s) == s[Len(s)]

\* list(middlewares)[::-1]
Reverse(s) == [i \in 1..Len(s) |-> s[Len(s) + 1 - i]]

\* A string is the sequence of its characters.
\* the first place of sep in s, 0 if there is none
Find(s, sep) ==
    IF \A i \in 1..Len(s) : s[i] # sep THEN 0
    ELSE CHOOSE i \in 1..Len(s) : s[i] = sep /\ \A j \in 1..(i - 1) : s[j] # sep

\* s.split(sep)
RECURSIVE Split(_, _)
Split(s, sep) ==
    LET i == Find(s, sep)
    IN  IF i = 0 THEN <<s>>
        ELSE <<SubSeq(s, 1, i - 1)>> \o Split(SubSeq(s, i + 1, Len(s)), sep)

\* s.partition(sep)
Partition(s, sep) ==
    LET i == Find(s, sep)
    IN  IF i = 0 THEN <<s, <<>>, <<>>>>
        ELSE <<SubSeq(s, 1, i - 1), <<sep>>, SubSeq(s, i + 1, Len(s))>>

\* BaseMiddeware.scopes
BaseScopes == {"http", "websockets"}

\* LifespanMiddleware.scopes
LifespanScopesInherited == {"http", "websockets"}
LifespanScopes == {"lifespan"}

\* What a handler returns: a Python value, by type and content.
Value(t, status, ctype, body) == [t |-> t, status |-> status, ctype |-> ctype, body |-> body]
NoneValue == Value("NoneType", 0, "", "")
DictValue(json) == Value("dict", 0, "", json)
StrValue(text) == Value("str", 0, "", text)
ResponseValue(status, ctype, body) == Value("Response", status, ctype, body)
\* HTMLResponse("Not Found", status_code=404)
HTMLNotFound == ResponseValue(404, "text/html", "Not Found")

\* The return values the handlers of the model choose from.
ReturnValues ==
    {NoneValue, DictValue("{}"), DictValue("{\"a\": 1}"), StrValue(""), StrValue("OK"),
     ResponseValue(200, "text/html", "OK")}

\* bool(value): None, an empty mapping and an empty string are false
TruthyUnlessNone(v) == v.t # "NoneType"
Truthy(v) ==
    CASE v.t = "NoneType" -> FALSE
      [] v.t = "dict" -> v.body # "{}"
      [] v.t = "str" -> v.body # ""
      [] OTHER -> TRUE

----------------------------------------------------------------------------
(* Stages.  A stage is a record; its inner handler is the next element of  *)
(* the chain it is part of.                                                *)

Stage(cls, scopes, id, prepare, params_only, kind) ==
    [cls |-> cls, scopes |-> scopes, id |-> id, kind |-> kind,
     prepare_response_only |-> prepare, pass_params_only |-> params_only]

LifespanMiddleware == Stage("Lifespan", LifespanScopes, 0, FALSE, FALSE, "")
RequestMiddleware == Stage("Request", BaseScopes, 0, FALSE, FALSE, "")
ResponseMiddleware(prepare) == Stage("Response", BaseScopes, 0, prepare, FALSE, "")
RouterMiddleware(params_only) == Stage("Router", BaseScopes, 0, FALSE, params_only, "")
\* a user-supplied stage: a BaseMiddeware subclass with its own scopes and its own
\* __process__
UserMiddleware(id, scopes) == Stage("User", scopes, id, FALSE, FALSE, "")
\* a user-supplied stage that defines nothing: BaseMiddeware itself, or a subclass
\* that inherits __process__
BaseMiddeware == Stage("User", BaseScopes, 0, FALSE, FALSE, "BaseMiddeware")

\* A terminal handler.
App(kind) == Stage("App", {}, 0, FALSE, FALSE, kind)

\* app=None
NoApp == App("None")
\* async def default404(request, **params)
default404 == App("default404")
\* HTMLResponse("Not Found", status_code=404), an ASGI application itself
NotFoundResponse == App("HTMLResponse404")
\* async def default_response(*args, **kwargs): return response
default_response == App("default_response")
\* an application the user supplies, taking any arguments
UserApp == App("userapp")

IsResponseInstance(app) == app.kind = "HTMLResponse404"

\* BaseMiddeware.bind / RouterMiddleware.bind: the inner handler a stage keeps
bind(md, app) ==
    LET bound == IF app = NoApp THEN NotFoundResponse ELSE app
    IN  IF md.cls = "Router" /\ md.pass_params_only /\ IsResponseInstance(bound)
        THEN default_response
        ELSE bound

\* md(app, **params), app being the head of the chain `inner`
Wrap(md, inner) == <<md, bind(md, inner[1])>> \o Tail(inner)

RECURSIVE Fold(_, _)
Fold(inner, mds) ==
    IF mds = <<>> THEN inner
    ELSE Fold(Wrap(Head(mds), inner), Tail(mds))

\* the order in which combine applies the middlewares
CombineOrderAsGiven(middlewares) == middlewares
CombineOrder(middlewares) == Reverse(middlewares)

\* combine(app, *middlewares)
combine(app, middlewares) == Fold(<<app>>, CombineOrder(middlewares))

\* AppMiddleware(app, *app_middlewares, pass_params_only=...)
AppMiddlewareBothSend(app, app_middlewares, pass_params_only) ==
    combine(IF app = NoApp THEN default404 ELSE app,
            <<LifespanMiddleware, RequestMiddleware, ResponseMiddleware(FALSE)>>
            \o app_middlewares
            \o <<ResponseMiddleware(FALSE), RouterMiddleware(pass_params_only)>>)
AppMiddleware(app, app_middlewares, pass_params_only) ==
    combine(IF app = NoApp THEN default404 ELSE app,
            <<LifespanMiddleware, RequestMiddleware, ResponseMiddleware(FALSE)>>
            \o app_middlewares
            \o <<ResponseMiddleware(TRUE), RouterMiddleware(pass_params_only)>>)

----------------------------------------------------------------------------
(* Scopes, paths and the route table. *)

\* A path is the sequence of its segments.
Lit(name) == [lit |-> name, param |-> ""]
Param(name) == [lit |-> "", param |-> name]

\* '/test' and '/item/{id}'
PatternTest == <<Lit("test")>>
PatternItem == <<Lit("item"), Param("id")>>
Patterns == {PatternTest, PatternItem}

Paths == {<<>>, <<"test">>, <<"item", "1">>}
Methods == {"GET", "PROPFIND"}
\* a route registered without methods answers every method
AnyMethod == {"*"}

\* A route callback: a function of the user, async or not.
Callback(name, is_async) == [name |-> name, is_async |-> is_async]
AsyncHandler == Callback("handler", TRUE)
SyncHandler == Callback("sync_handler", FALSE)
NoCallback == Callback("", TRUE)
Callbacks == {AsyncHandler, SyncHandler}

Route(pattern, methods, cb) == [pattern |-> pattern, methods |-> methods, cb |-> cb]

\* The scope of a connection, and the Request made of it (a dict in both cases).
Scope(type, root_path, path, method) ==
    [cls |-> "dict", type |-> type, root_path |-> root_path, path |-> path,
     method |-> method, has_router |-> FALSE, router |-> {}]

\* Request(scope, receive, send): a new dict holding the items of scope
Request(scope) == [scope EXCEPT !.cls = "Request"]

\* the scopes a transport delivers
TransportScopes ==
    {Scope("lifespan", <<>>, <<>>, "")}
    \cup {Scope(t, <<>>, p, m) : t \in {"http", "websocket"}, p \in Paths, m \in Methods}
    \cup {Scope("http", <<"item">>, <<"1">>, "GET")}

Matches(route, path, method) ==
    /\ Len(route.pattern) = Len(path)
    /\ \A i \in 1..Len(path) : route.pattern[i].param # "" \/ route.pattern[i].lit = path[i]
    /\ (route.methods = AnyMethod \/ method \in route.methods)

PathParams(route, path) ==
    {<<route.pattern[i].param, path[i]>> : i \in {j \in 1..Len(path) : route.pattern[j].param # ""}}

\* self.router(path, method): the first route that matches, or NotFound
Lookup(table, path, method) ==
    LET hits == {i \in 1..Len(table) : Matches(table[i], path, method)}
    IN  IF hits = {} THEN [found |-> FALSE, cb |-> NoCallback, params |-> {}]
        ELSE LET i == CHOOSE j \in hits : \A k \in hits : j <= k
             IN  [found |-> TRUE, cb |-> table[i].cb, params |-> PathParams(table[i], path)]

\* self.router.route(path, methods)(cb)
AddRoute(table, pattern, methods, cb) == Append(table, Route(pattern, methods, cb))

\* RouterMiddleware.__init__: for path, cb in routes.items(): self.router.route(path)(cb)
RECURSIVE RouterInit(_, _)
RouterInit(table, items) ==
    IF items = <<>> THEN table
    ELSE RouterInit(AddRoute(table, Head(items)[1], AnyMethod, Head(items)[2]), Tail(items))

\* the check RouterMiddleware.route makes of a callback
RouteAcceptsAll(cb) == TRUE
RouteAccepts(cb) == cb.is_async

----------------------------------------------------------------------------
(* Frames, events and the outcome of the call. *)

\* the positional arguments after scope
ASGIArgs == <<"receive", "send">>

Frame(callee, cb, scope, args, kwargs) ==
    [callee |-> callee, cb |-> cb, pc |-> "call", scope |-> scope, args |-> args,
     kwargs |-> kwargs, ret |-> NoneValue, i |-> 0]

Top == Last(stack)
TopStage == chain[Top.callee]
Running == stack # <<>>
\* the frame on top is a stage of the chain (a route callback is callee 0)
OnStage(cls) == Running /\ Top.callee > 0 /\ TopStage.cls = cls

\* scope['type'] in self.scopes
Interested(stage, scope) == scope.type \in stage.scopes

\* An observable event: a call of chain[idx] (idx 0: a route callback), the body of a
\* handler or callback `name` running, a receive() or a send(value).
Event(ev, idx, name, scope, args, kwargs, value) ==
    [ev |-> ev, idx |-> idx, name |-> name, scope |-> scope, args |-> args,
     kwargs |-> kwargs, value |-> value]

\* an event of the transport or of a callback, which carries no call
Note(ev, name, value) == Event(ev, 0, name, 0, <<>>, {}, value)

\* a message of the transport, by type and content
Message(type, status, ctype, body) == Value(type, status, ctype, body)
Signal(type) == Message(type, 0, "", "")

Idle == [status |-> "idle", value |-> NoneValue, error |-> ""]
Started == [status |-> "running", value |-> NoneValue, error |-> ""]
Returned(v) == [status |-> "returned", value |-> v, error |-> ""]
Raised(e) == [status |-> "raised", value |-> NoneValue, error |-> e]

\* stack with its top frame replaced
SetTop(f) == [stack EXCEPT ![Len(stack)] = f]

\* await callee(scope, *args, **kwargs): the caller waits at pc `wait`
Await(wait, callee, cb, scope, args, kwargs) ==
    /\ stack' = Append(SetTop([Top EXCEPT !.pc = wait]), Frame(callee, cb, scope, args, kwargs))
    /\ log' = Append(log, Event("call", callee, cb.name, scope, args, kwargs, NoneValue))

\* an exception no frame catches ends the call
Raise(e) ==
    /\ stack' = <<>>
    /\ outcome' = Raised(e)

\* The fields of a Request: whether receive is bound, the charset of the
\* content-type header, self._body (None or bytes), self.meta['json'] and
\* self.meta['form']; dev_mode tells whether the interpreter runs in its
\* development mode, in which bytes.decode looks the codec up for b'' too.
RequestFields(receive, charset) ==
    [receive |-> receive, charset |-> charset, has_body |-> FALSE, _body |-> <<>>,
     has_json |-> FALSE, json |-> 0, has_form |-> FALSE, form |-> <<>>,
     dev_mode |-> FALSE]

\* where no Request is modelled
NoRequest == RequestFields(FALSE, "")

----------------------------------------------------------------------------
(* The transport calls the application. *)

Connect ==
    /\ outcome = Idle
    /\ \E sc \in config.scopes :
        /\ objs' = <<sc>>
        /\ stack' = <<Frame(1, NoCallback, 1, ASGIArgs, {})>>
        /\ log' = Append(log, Event("call", 1, "", 1, ASGIArgs, {}, NoneValue))
    /\ outcome' = Started
    /\ UNCHANGED <<req, inbox, config, chain, _startup, _shutdown, routes, nrecv>>

----------------------------------------------------------------------------
(* BaseMiddeware.__call__ *)

\* what a stage that is not interested hands to its inner handler
ForwardScopeOnly(f) == [scope |-> f.scope, args |-> <<>>, kwargs |-> {}]
Forward(f) == [scope |-> f.scope, args |-> f.args, kwargs |-> f.kwargs]

\* return await self.app(scope, *args, **kwargs)
Passthrough ==
    /\ Running /\ Top.callee > 0 /\ TopStage.cls # "App" /\ Top.pc = "call"
    /\ ~Interested(TopStage, objs[Top.scope])
    /\ LET fw == Forward(Top)
       IN  Await("return", Top.callee + 1, NoCallback, fw.scope, fw.args, fw.kwargs)
    /\ UNCHANGED <<req, inbox, config, chain, _startup, _shutdown, routes, objs, outcome, nrecv>>

\* A coroutine returns: its caller resumes with the value.
Finish ==
    /\ Running /\ Top.pc = "done"
    /\ LET v == Top.ret
           rest == SubSeq(stack, 1, Len(stack) - 1)
       IN  IF rest = <<>>
           THEN /\ stack' = <<>>
                /\ outcome' = Returned(v)
           ELSE /\ stack' = [rest EXCEPT ![Len(rest)] =
                               [@ EXCEPT !.ret = v,
                                         !.pc = IF @ = "return" THEN "done" ELSE "parse"]]
                /\ UNCHANGED outcome
    /\ UNCHANGED <<req, inbox, config, chain, _startup, _shutdown, routes, objs, log, nrecv>>

----------------------------------------------------------------------------
(* RequestMiddleware and a user-supplied stage *)

\* the first argument RequestMiddleware gives its inner handler: a new Request
RequestScopeRaw(f) == [objs |-> objs, scope |-> f.scope]
RequestScope(f) == [objs |-> Append(objs, Request(objs[f.scope])), scope |-> Len(objs) + 1]

\* return await self.app(Request(scope, receive, send), receive, send)
RequestProcess ==
    /\ OnStage("Request") /\ Top.pc = "call"
    /\ Interested(TopStage, objs[Top.scope])
    /\ LET made == RequestScope(Top)
       IN  /\ objs' = made.objs
           /\ Await("return", Top.callee + 1, NoCallback, made.scope, Top.args, {})
    /\ UNCHANGED <<req, inbox, config, chain, _startup, _shutdown, routes, outcome, nrecv>>

\* whether the stage runs the __process__ of BaseMiddeware
Inherits(stage) == stage.kind = "BaseMiddeware"

\* BaseMiddeware.__process__: raise NotImplementedError()
__process__ ==
    /\ OnStage("User") /\ Top.pc = "call"
    /\ Interested(TopStage, objs[Top.scope])
    /\ Inherits(TopStage)
    /\ Raise("NotImplementedError")
    /\ log' = Append(log, Event("raise", Top.callee, "NotImplementedError", Top.scope,
                                Top.args, {}, NoneValue))
    /\ UNCHANGED <<req, inbox, config, chain, _startup, _shutdown, routes, objs, nrecv>>

\* the __process__ a user-supplied stage defines: await self.app(scope, receive, send)
UserProcess ==
    /\ OnStage("User") /\ Top.pc = "call"
    /\ Interested(TopStage, objs[Top.scope])
    /\ ~Inherits(TopStage)
    /\ stack' = Append(SetTop([Top EXCEPT !.pc = "return"]),
                       Frame(Top.callee + 1, NoCallback, Top.scope, Top.args, {}))
    /\ log' = log \o <<Event("process", Top.callee, "", Top.scope, Top.args, {}, NoneValue),
                       Event("call", Top.callee + 1, "", Top.scope, Top.args, {}, NoneValue)>>
    /\ UNCHANGED <<req, inbox, config, chain, _startup, _shutdown, routes, objs, outcome, nrecv>>

----------------------------------------------------------------------------
(* ResponseMiddleware *)

\* parse_response: a Response stays, a mapping becomes a JSON response, a string a text one
parse_response(v) ==
    CASE v.t = "Response" -> v
      [] v.t = "dict" -> ResponseValue(200, "application/json", v.body)
      [] v.t = "str" -> ResponseValue(200, "text/plain", v.body)
      [] OTHER -> ResponseValue(200, "text/plain", v.body)

\* async for msg in response: the start of the response, then its body
Messages(response) ==
    <<Message("http.response.start", response.status, response.ctype, ""),
      Message("http.response.body", 0, "", response.body)>>

\* response = await self.app(scope, receive, send)
ResponseProcess ==
    /\ OnStage("Response") /\ Top.pc = "call"
    /\ Interested(TopStage, objs[Top.scope])
    /\ Await("app", Top.callee + 1, NoCallback, Top.scope, Top.args, {})
    /\ UNCHANGED <<req, inbox, config, chain, _startup, _shutdown, routes, objs, outcome, nrecv>>

\* if response: response = await parse_response(response); the prepared response
\* is returned or its messages are about to be sent
ResponseParse ==
    /\ OnStage("Response") /\ Top.pc = "parse"
    /\ stack' = SetTop(
           IF ~Truthy(Top.ret) THEN [Top EXCEPT !.pc = "done", !.ret = NoneValue]
           ELSE IF TopStage.prepare_response_only
                THEN [Top EXCEPT !.pc = "done", !.ret = parse_response(Top.ret)]
                ELSE [Top EXCEPT !.pc = "send", !.ret = parse_response(Top.ret), !.i = 1])
    /\ UNCHANGED <<req, inbox, config, chain, _startup, _shutdown, routes, objs, outcome, log, nrecv>>

\* async for msg in response: await send(msg)
ResponseSend ==
    /\ OnStage("Response") /\ Top.pc = "send"
    /\ LET msgs == Messages(Top.ret)
       IN  /\ log' = Append(log, Event("send", Top.callee, "", 0, <<>>, {}, msgs[Top.i]))
           /\ stack' = SetTop(IF Top.i = Len(msgs)
                              THEN [Top EXCEPT !.pc = "done", !.ret = NoneValue]
                              ELSE [Top EXCEPT !.i = @ + 1])
    /\ UNCHANGED <<req, inbox, config, chain, _startup, _shutdown, routes, objs, outcome, nrecv>>

----------------------------------------------------------------------------
(* RouterMiddleware *)

\* RouterMiddleware.__dispatch__ without its except clause: NotFound escapes
DispatchRaising(idx, scope) ==
    LET hit == Lookup(routes, scope.root_path \o scope.path, scope.method)
    IN  [raised |-> ~hit.found, callee |-> 0, cb |-> hit.cb, params |-> hit.params]

\* RouterMiddleware.__dispatch__: the callback and the parameters of the route that
\* matches, or self.app and no parameters
__dispatch__(idx, scope) ==
    LET hit == Lookup(routes, scope.root_path \o scope.path, scope.method)
    IN  IF hit.found
        THEN [raised |-> FALSE, callee |-> 0, cb |-> hit.cb, params |-> hit.params]
        ELSE [raised |-> FALSE, callee |-> idx + 1, cb |-> NoCallback, params |-> {}]

\* RouterMiddleware.__process__
RouterProcess ==
    /\ OnStage("Router") /\ Top.pc = "call"
    /\ Interested(TopStage, objs[Top.scope])
    /\ LET d == __dispatch__(Top.callee, objs[Top.scope])
       IN  IF d.raised
           THEN /\ Raise("NotFound")
                /\ UNCHANGED <<objs, log>>
           ELSE IF TopStage.pass_params_only
           THEN /\ Await("return", d.callee, d.cb, Top.scope, <<>>, d.params)
                /\ UNCHANGED <<objs, outcome>>
           ELSE /\ objs' = [objs EXCEPT ![Top.scope] =
                               [@ EXCEPT !.has_router = TRUE, !.router = d.params]]
                /\ Await("return", d.callee, d.cb, Top.scope, Top.args, {})
                /\ UNCHANGED outcome
    /\ UNCHANGED <<req, inbox, config, chain, _startup, _shutdown, routes, nrecv>>

IsError(e) == e.ev = "ValueError"

\* RouterMiddleware.route(path, methods=...)(cb): the callback is checked, then
\* registered
route ==
    /\ outcome = Idle
    /\ Len(routes) + Len(SelectSeq(log, IsError)) < MaxRoutes
    /\ \E pattern \in Patterns, methods \in {AnyMethod, {"PROPFIND"}}, cb \in Callbacks :
        IF RouteAccepts(cb)
        THEN /\ routes' = AddRoute(routes, pattern, methods, cb)
             /\ UNCHANGED log
        ELSE /\ log' = Append(log, Note("ValueError", cb.name, NoneValue))
             /\ UNCHANGED routes
    /\ UNCHANGED <<req, inbox, config, chain, _startup, _shutdown, objs, stack, outcome, nrecv>>

----------------------------------------------------------------------------
(* The handlers at the end of the chain *)

\* the name an event gives the handler a frame runs
HandlerName(f) == IF f.callee = 0 THEN f.cb.name ELSE chain[f.callee].kind

OnHandler(kinds) ==
    /\ Running /\ Top.pc = "call"
    /\ \/ Top.callee = 0 /\ "callback" \in kinds
       \/ Top.callee > 0 /\ TopStage.cls = "App" /\ TopStage.kind \in kinds

\* the body of a handler ran, and returned v
Ran(f, v) == Event("handler", f.callee, HandlerName(f), f.scope, f.args, f.kwargs, v)

\* a route callback or the application of the user runs and returns a value; the
\* call of a callback that is no coroutine function gives nothing to await
HandlerCall ==
    /\ OnHandler({"callback", "userapp"})
    /\ \E v \in ReturnValues :
        /\ log' = Append(log, Ran(Top, v))
        /\ IF Top.callee = 0 /\ ~Top.cb.is_async
           THEN Raise("TypeError")
           ELSE /\ stack' = SetTop([Top EXCEPT !.pc = "done", !.ret = v])
                /\ UNCHANGED outcome
    /\ UNCHANGED <<req, inbox, config, chain, _startup, _shutdown, routes, objs, nrecv>>

\* async def default404(request, **params): one positional argument, no more
Default404Call ==
    /\ OnHandler({"default404"})
    /\ IF Top.args # <<>>
       THEN /\ Raise("TypeError")
            /\ UNCHANGED log
       ELSE /\ log' = Append(log, Ran(Top, HTMLNotFound))
            /\ stack' = SetTop([Top EXCEPT !.pc = "done", !.ret = HTMLNotFound])
            /\ UNCHANGED outcome
    /\ UNCHANGED <<req, inbox, config, chain, _startup, _shutdown, routes, objs, nrecv>>

\* async def default_response(*args, **kwargs): return response
DefaultResponseCall ==
    /\ OnHandler({"default_response"})
    /\ log' = Append(log, Ran(Top, HTMLNotFound))
    /\ stack' = SetTop([Top EXCEPT !.pc = "done", !.ret = HTMLNotFound])
    /\ UNCHANGED <<req, inbox, config, chain, _startup, _shutdown, routes, objs, outcome, nrecv>>

\* HTMLResponse("Not Found", status_code=404) called as an ASGI application: it
\* sends itself
NotFoundResponseCall ==
    /\ OnHandler({"HTMLResponse404"})
    /\ LET msgs == Messages(HTMLNotFound)
       IN  log' = log \o <<Ran(Top, NoneValue),
                           Event("send", Top.callee, "", 0, <<>>, {}, msgs[1]),
                           Event("send", Top.callee, "", 0, <<>>, {}, msgs[2])>>
    /\ stack' = SetTop([Top EXCEPT !.pc = "done", !.ret = NoneValue])
    /\ UNCHANGED <<req, inbox, config, chain, _startup, _shutdown, routes, objs, outcome, nrecv>>

----------------------------------------------------------------------------
(* LifespanMiddleware *)

\* A lifespan callback, after to_coroutine: awaiting it returns or raises.
LifespanCallback(name, fails) == [name |-> name, fails |-> fails]
LifespanCallbacks ==
    {LifespanCallback("a", FALSE), LifespanCallback("b", FALSE), LifespanCallback("bad", TRUE)}

\* The handlers argument of __register__: None, one function or a list of functions.
NoHandlers == [shape |-> "none", fns |-> <<>>]
OneHandler(fn) == [shape |-> "single", fns |-> <<fn>>]
HandlerList(fns) == [shape |-> "list", fns |-> fns]

\* LifespanMiddleware.__register__
__register__(handlers, container) ==
    IF handlers.shape = "none" \/ handlers.fns = <<>> THEN container
    ELSE container \o handlers.fns

\* the signals receive() delivers on a lifespan connection
LifespanSignals == {"lifespan.startup", "lifespan.shutdown", "lifespan.other"}

\* for fn in registry: the callback the loop runs at its i-th turn
NextCallbackReversed(registry, i) == registry[Len(registry) + 1 - i]
NextCallback(registry, i) == registry[i]

\* await fn(): whether the failure of a callback leaves the loop
PropagatesNever(fn) == FALSE
Propagates(fn) == fn.fails

\* LifespanMiddleware.on_startup
on_startup ==
    /\ outcome = Idle
    /\ \E fn \in LifespanCallbacks :
        /\ Len(_startup) < MaxCallbacks
        /\ _startup' = __register__(OneHandler(fn), _startup)
    /\ UNCHANGED <<req, inbox, config, chain, _shutdown, routes, objs, stack, outcome, log, nrecv>>

\* LifespanMiddleware.on_shutdown
on_shutdown ==
    /\ outcome = Idle
    /\ \E fn \in LifespanCallbacks :
        /\ Len(_shutdown) < MaxCallbacks
        /\ _shutdown' = __register__(OneHandler(fn), _shutdown)
    /\ UNCHANGED <<req, inbox, config, chain, _startup, routes, objs, stack, outcome, log, nrecv>>

\* message = await receive(), and the branch of the loop the message selects
LifespanReceive ==
    /\ OnStage("Lifespan")
    /\ \/ Top.pc = "call" /\ Interested(TopStage, objs[Top.scope])
       \/ Top.pc = "receive"
    /\ nrecv < MaxMsgs
    /\ \E m \in LifespanSignals :
        /\ log' = Append(log, Note("receive", "", Signal(m)))
        /\ stack' = SetTop([Top EXCEPT !.i = 1,
                                       !.pc = CASE m = "lifespan.startup" -> "startup"
                                                [] m = "lifespan.shutdown" -> "shutdown"
                                                [] OTHER -> "receive"])
    /\ nrecv' = nrecv + 1
    /\ UNCHANGED <<req, inbox, config, chain, _startup, _shutdown, routes, objs, outcome>>

\* one turn of the loop of __startup__ or __shutdown__: await fn()
RunCallback(registry) ==
    /\ Top.i <= Len(registry)
    /\ LET fn == NextCallback(registry, Top.i)
       IN  /\ log' = Append(log, Note("callback", fn.name, NoneValue))
           /\ IF Propagates(fn)
              THEN Raise("CallbackError")
              ELSE /\ stack' = SetTop([Top EXCEPT !.i = @ + 1])
                   /\ UNCHANGED outcome
    /\ UNCHANGED <<req, inbox, config, chain, _startup, _shutdown, routes, objs, nrecv>>

\* LifespanMiddleware.__startup__
LifespanStartup ==
    /\ OnStage("Lifespan") /\ Top.pc = "startup"
    /\ RunCallback(_startup)

\* await send({'type': 'lifespan.startup.complete'}), and the loop goes on
LifespanStartupComplete ==
    /\ OnStage("Lifespan") /\ Top.pc = "startup"
    /\ Top.i > Len(_startup)
    /\ log' = Append(log, Event("send", Top.callee, "", 0, <<>>, {},
                                Signal("lifespan.startup.complete")))
    /\ stack' = SetTop([Top EXCEPT !.pc = "receive"])
    /\ UNCHANGED <<req, inbox, config, chain, _startup, _shutdown, routes, objs, outcome, nrecv>>

\* LifespanMiddleware.__shutdown__
LifespanShutdown ==
    /\ OnStage("Lifespan") /\ Top.pc = "shutdown"
    /\ RunCallback(_shutdown)

\* return await send({'type': 'lifespan.shutdown.complete'})
LifespanShutdownComplete ==
    /\ OnStage("Lifespan") /\ Top.pc = "shutdown"
    /\ Top.i > Len(_shutdown)
    /\ log' = Append(log, Event("send", Top.callee, "", 0, <<>>, {},
                                Signal("lifespan.shutdown.complete")))
    /\ stack' = SetTop([Top EXCEPT !.pc = "done", !.ret = NoneValue])
    /\ UNCHANGED <<req, inbox, config, chain, _startup, _shutdown, routes, objs, outcome, nrecv>>

----------------------------------------------------------------------------
(* The application chain: AppMiddleware or combine, then one connection. *)

SeqsUpTo(S, n) == UNION {[1..k -> S] : k \in 0..n}

\* the stages a user supplies
UserStages ==
    {UserMiddleware(1, BaseScopes), UserMiddleware(2, {"http", "websocket", "lifespan"}),
     BaseMiddeware}

\* the routes argument of the constructor: (path, callback) items
RouteItems ==
    {<<>>, <<<<PatternTest, AsyncHandler>>>>, <<<<PatternItem, AsyncHandler>>>>,
     <<<<PatternTest, SyncHandler>>>>}

Config(mode, app, middlewares, params_only, items, startup, shutdown, scopes) ==
    [mode |-> mode, app |-> app, middlewares |-> middlewares,
     pass_params_only |-> params_only, routes |-> items,
     on_startup |-> startup, on_shutdown |-> shutdown, scopes |-> scopes]

ChainConfigs ==
    {Config("AppMiddleware", app, mds, ppo, items, hs, hs, TransportScopes) :
        app \in {NoApp, UserApp, NotFoundResponse}, mds \in SeqsUpTo(UserStages, MaxUser),
        ppo \in BOOLEAN, items \in RouteItems,
        hs \in {NoHandlers, OneHandler(LifespanCallback("a", FALSE))}}
    \cup
    {Config("combine", app, mds, FALSE, <<>>, NoHandlers, NoHandlers, TransportScopes) :
        app \in {NoApp, UserApp},
        mds \in SeqsUpTo(UserStages \cup {RequestMiddleware}, MaxUser) \ {<<>>}}

\* the application a configuration builds
Build(c) ==
    IF c.mode = "AppMiddleware"
    THEN AppMiddleware(c.app, c.middlewares, c.pass_params_only)
    ELSE combine(c.app, c.middlewares)

InitFrom(c) ==
    /\ config = c
    /\ chain = Build(c)
    /\ _startup = __register__(c.on_startup, <<>>)
    /\ _shutdown = __register__(c.on_shutdown, <<>>)
    /\ routes = RouterInit(<<>>, c.routes)
    /\ objs = <<>>
    /\ stack = <<>>
    /\ outcome = Idle
    /\ log = <<>>
    /\ nrecv = 0
    /\ req = NoRequest
    /\ inbox = <<>>

Init == \E c \in ChainConfigs : InitFrom(c)

Next ==
    \/ Connect
    \/ Passthrough
    \/ Finish
    \/ RequestProcess
    \/ __process__
    \/ UserProcess
    \/ ResponseProcess
    \/ ResponseParse
    \/ ResponseSend
    \/ RouterProcess
    \/ HandlerCall
    \/ Default404Call
    \/ DefaultResponseCall
    \/ NotFoundResponseCall
    \/ LifespanReceive
    \/ LifespanStartup
    \/ LifespanStartupComplete
    \/ LifespanShutdown
    \/ LifespanShutdownComplete

Spec == Init /\ [][Next]_vars

----------------------------------------------------------------------------
(* LifespanMiddleware alone: callbacks are registered, then the transport  *)
(* opens the lifespan connection.                                          *)

LifespanScope == Scope("lifespan", <<>>, <<>>, "")

\* the on_startup and on_shutdown arguments of the constructor
HandlerArgs ==
    {NoHandlers, HandlerList(<<>>), OneHandler(LifespanCallback("a", FALSE)),
     HandlerList(<<LifespanCallback("a", FALSE), LifespanCallback("b", FALSE)>>)}

LifespanConfigs ==
    {Config("combine", UserApp, <<LifespanMiddleware>>, FALSE, <<>>, st, sh, {LifespanScope}) :
        st \in HandlerArgs, sh \in HandlerArgs}

InitLifespan == \E c \in LifespanConfigs : InitFrom(c)

NextLifespan ==
    \/ on_startup
    \/ on_shutdown
    \/ Connect
    \/ LifespanReceive
    \/ LifespanStartup
    \/ LifespanStartupComplete
    \/ LifespanShutdown
    \/ LifespanShutdownComplete
    \/ Finish

SpecLifespan == InitLifespan /\ [][NextLifespan]_vars

----------------------------------------------------------------------------
(* What the log of a connection says. *)

IsPrefix(a, b) == Len(a) <= Len(b) /\ \A i \in 1..Len(a) : a[i] = b[i]

IsCall(e) == e.ev = "call"
IsReceive(e) == e.ev = "receive"
IsSend(e) == e.ev = "send"
IsCallback(e) == e.ev = "callback"
IsHandler(e) == e.ev = "handler"

Calls == SelectSeq(log, IsCall)
Received == LET r == SelectSeq(log, IsReceive) IN [i \in 1..Len(r) |-> r[i].value.t]

\* an event of the lifespan connection, by kind and name
Brief(e) ==
    CASE e.ev = "callback" -> <<"callback", e.name>>
      [] e.ev = "call" -> <<"call", "">>
      [] OTHER -> <<e.ev, e.value.t>>
Trace == [i \in 1..Len(log) |-> Brief(log[i])]

CallbackEvents(registry) == [i \in 1..Len(registry) |-> <<"callback", registry[i].name>>]

Connected == outcome # Idle
Finished == Connected /\ stack = <<>>

----------------------------------------------------------------------------
(* The claims about the lifespan loop. *)

StartupThenShutdown == <<"lifespan.startup", "lifespan.shutdown">>

NoCallbackFails ==
    /\ \A i \in 1..Len(_startup) : ~_startup[i].fails
    /\ \A i \in 1..Len(_shutdown) : ~_shutdown[i].fails

\* the events of a whole lifecycle, in order
LifecycleTrace ==
    <<<<"call", "">>, <<"receive", "lifespan.startup">>>>
    \o CallbackEvents(_startup)
    \o <<<<"send", "lifespan.startup.complete">>, <<"receive", "lifespan.shutdown">>>>
    \o CallbackEvents(_shutdown)
    \o <<<<"send", "lifespan.shutdown.complete">>>>

\* C1: on a lifespan connection that delivers a startup signal and then a shutdown
\* signal, with callbacks that do not fail, the events are exactly: every startup
\* callback once in registration order, one 'startup complete', every shutdown
\* callback once in registration order, one 'shutdown complete'; the call then
\* returns.  The registries may be empty.
C1_LifecycleRunsCallbacksInOrder ==
    (Connected /\ NoCallbackFails /\ IsPrefix(Received, StartupThenShutdown)) =>
        /\ IsPrefix(Trace, LifecycleTrace)
        /\ outcome.status # "raised"
        /\ (Finished => Trace = LifecycleTrace /\ outcome = Returned(NoneValue))

C1_Witness ==
    /\ Finished /\ outcome.status = "returned"
    /\ Received = StartupThenShutdown
    /\ Len(_startup) = 2 /\ _startup[1] # _startup[2]
    /\ Len(_shutdown) = 2 /\ _shutdown[1] # _shutdown[2]

\* the place in the log of the last signal received
LastReceive == CHOOSE i \in 1..Len(log) : IsReceive(log[i]) /\ \A j \in (i+1)..Len(log) : ~IsReceive(log[j])

FailingName(name) == \E fn \in LifespanCallbacks : fn.name = name /\ fn.fails

\* C2: a callback that raises is the last thing the lifespan stage does: the error
\* leaves the stage, the callbacks of the phase before it ran in order, no later
\* callback runs, the phase is not acknowledged and no further signal is read.
C2_CallbackFailureAborts ==
    /\ \A i \in 1..Len(log) :
        (IsCallback(log[i]) /\ FailingName(log[i].name)) =>
            /\ i = Len(log)
            /\ outcome = Raised("CallbackError")
            /\ stack = <<>>
    /\ outcome.status = "raised" =>
        LET p == LastReceive
            registry == IF log[p].value.t = "lifespan.startup" THEN _startup ELSE _shutdown
            k == Len(log) - p
        IN  /\ k >= 1 /\ k <= Len(registry)
            /\ \A j \in 1..k : Brief(log[p + j]) = <<"callback", registry[j].name>>
            /\ registry[k].fails
            /\ \A j \in 1..(k - 1) : ~registry[j].fails

C2_Witness ==
    /\ outcome.status = "raised"
    /\ Received = StartupThenShutdown
    /\ Len(_shutdown) = 2 /\ _shutdown[1].fails

----------------------------------------------------------------------------
(* The claims about the chain. *)

Canonical == config.mode = "AppMiddleware"

\* C3: in the chain AppMiddleware builds, a lifespan connection stays in the
\* outermost stage, the lifespan stage: whatever signals arrive, no other stage and
\* no handler is called or runs.
C3_LifespanStaysOutermost ==
    (Connected /\ Canonical /\ objs[1].type = "lifespan") =>
        /\ chain[1].cls = "Lifespan"
        /\ \A i \in 1..Len(log) :
            /\ log[i].ev \in {"call", "receive", "callback", "send"}
            /\ IsCall(log[i]) => i = 1 /\ log[i].idx = 1
        /\ Len(stack) <= 1
        /\ Running => Top.callee = 1

C3_Witness ==
    /\ Canonical /\ Finished /\ objs[1].type = "lifespan"
    /\ config.middlewares # <<>>
    /\ Received = <<"lifespan.other", "lifespan.startup", "lifespan.shutdown">>

\* the stage or handler a call event calls
Callee(e) == IF e.idx = 0 THEN App("callback") ELSE chain[e.idx]

\* C4: in the chain AppMiddleware builds, on an http connection every user-supplied
\* stage, every route callback and the default handler is called with a Request
\* made of the scope of the connection, never with that scope itself.
C4_FacadeBeforeUserCode ==
    (Connected /\ Canonical /\ objs[1].type = "http") =>
        \A i \in 1..Len(log) :
            (log[i].ev \in {"call", "process", "handler"}
                /\ Callee(log[i]).cls \in {"User", "App"}) =>
                    /\ log[i].scope # 1
                    /\ log[i].scope <= Len(objs)
                    /\ objs[log[i].scope].cls = "Request"
                    /\ objs[log[i].scope].path = objs[1].path
                    /\ objs[log[i].scope].method = objs[1].method
                    /\ objs[log[i].scope].type = objs[1].type

C4_Witness ==
    /\ Canonical /\ Finished /\ objs[1].type = "http"
    /\ Len(config.middlewares) = 2
    /\ \E i \in 1..Len(log) : IsHandler(log[i]) /\ log[i].idx = 0 /\ log[i].scope = 2
    /\ \E i \in 1..Len(log) : log[i].ev = "process"

\* the stages entered so far, in order
Entered == [k \in 1..Len(Calls) |-> Callee(Calls[k])]

EveryStageProcesses ==
    \A k \in 1..Len(config.middlewares) : Interested(config.middlewares[k], objs[1])

\* C5: combine(app, m1, ..., mn) makes m1 the outermost stage and mn the stage that
\* wraps app: on a connection every stage processes, the stages are entered in the
\* order m1, ..., mn and app runs last.
C5_CombineOrder ==
    (Connected /\ config.mode = "combine" /\ EveryStageProcesses) =>
        LET inOrder == config.middlewares \o <<bind(Last(config.middlewares), config.app)>>
        IN  /\ IsPrefix(Entered, inOrder)
            /\ (\E i \in 1..Len(log) : IsHandler(log[i])) => Entered = inOrder

C5_Witness ==
    /\ Connected /\ config.mode = "combine" /\ EveryStageProcesses
    /\ Len(config.middlewares) = 2 /\ config.middlewares[1] # config.middlewares[2]
    /\ \E i \in 1..Len(log) : IsHandler(log[i])

\* the stage on top of the stack is called with a connection it does not process
AtPassthrough ==
    /\ Running /\ Top.callee > 0 /\ TopStage.cls # "App" /\ Top.pc = "call"
    /\ ~Interested(TopStage, objs[Top.scope])

\* the inner handler of a stage that passed the connection on returns
PassthroughReturns ==
    /\ Len(stack) >= 2 /\ Top.pc = "done"
    /\ stack[Len(stack) - 1].pc = "return"
    /\ ~Interested(chain[stack[Len(stack) - 1].callee], objs[stack[Len(stack) - 1].scope])

\* C6: a stage called with a connection of a type that is not in its scopes only
\* calls its inner handler, once, with the scope, receive and send it was given,
\* changes neither the scope nor itself, and returns what the inner handler returns.
C6_PassthroughUnchanged ==
    [][ /\ AtPassthrough =>
            /\ stack' = Append(SetTop([Top EXCEPT !.pc = "return"]),
                               Frame(Top.callee + 1, NoCallback, Top.scope, Top.args, Top.kwargs))
            /\ log' = Append(log, Event("call", Top.callee + 1, "", Top.scope, Top.args,
                                        Top.kwargs, NoneValue))
            /\ UNCHANGED <<req, inbox, config, chain, _startup, _shutdown, routes, objs, outcome>>
        /\ PassthroughReturns =>
            /\ Len(stack') = Len(stack) - 1
            /\ Last(stack').pc = "done"
            /\ Last(stack').ret = Top.ret
            /\ UNCHANGED <<req, inbox, config, chain, _startup, _shutdown, routes, objs, log>>
      ]_vars

C6_Witness ==
    /\ Canonical /\ Finished /\ objs[1].type = "websocket"
    /\ outcome.status = "returned" /\ Truthy(outcome.value)
    /\ Len(Calls) = Len(chain)

----------------------------------------------------------------------------
(* RouterMiddleware alone: routes are registered, then one http connection. *)

HttpScopes == {sc \in TransportScopes : sc.type = "http"}

RouterConfigs ==
    {Config("combine", app, <<RouterMiddleware(ppo)>>, ppo, items, NoHandlers, NoHandlers,
            HttpScopes) :
        app \in {NoApp, UserApp}, ppo \in BOOLEAN, items \in RouteItems}

InitRouter == \E c \in RouterConfigs : InitFrom(c)

NextRouter ==
    \/ route
    \/ Connect
    \/ RouterProcess
    \/ HandlerCall
    \/ DefaultResponseCall
    \/ NotFoundResponseCall
    \/ Finish

SpecRouter == InitRouter /\ [][NextRouter]_vars

\* no route of the table matches the connection
NoRouteMatches ==
    ~Lookup(routes, objs[1].root_path \o objs[1].path, objs[1].method).found

Handled == SelectSeq(log, IsHandler)

\* C9: when no route matches the path and method of the connection, NotFound does
\* not leave the routing stage: the stage calls its default handler, self.app,
\* once, with no path parameters, and returns what that handler returns.
C9_NotFoundFallsBackToDefault ==
    (Connected /\ NoRouteMatches) =>
        /\ outcome.status # "raised"
        /\ Len(Calls) <= 2 /\ Len(Handled) <= 1
        /\ (Len(Calls) = 1) = (Len(stack) = 1 /\ Top.pc = "call")
        /\ Len(Calls) = 2 =>
            /\ Calls[2].idx = 2 /\ Calls[2].scope = 1
            /\ chain[2] = bind(chain[1], config.app)
            /\ IF chain[1].pass_params_only
               THEN Calls[2].args = <<>> /\ Calls[2].kwargs = {}
               ELSE /\ Calls[2].args = ASGIArgs /\ Calls[2].kwargs = {}
                    /\ objs[1].has_router /\ objs[1].router = {}
        /\ Finished =>
            /\ Len(Handled) = 1 /\ Handled[1].idx = 2
            /\ outcome = Returned(Handled[1].value)

C9_Witness ==
    /\ Finished /\ NoRouteMatches
    /\ Len(routes) >= 1
    /\ \E i \in 1..Len(routes) :
        /\ Matches([routes[i] EXCEPT !.methods = AnyMethod], objs[1].path, objs[1].method)
        /\ routes[i].methods = {"PROPFIND"}
    /\ outcome.status = "returned" /\ Truthy(outcome.value)

\* C10: a callback that is not an async function is rejected when it is registered,
\* however it is registered, so the route table holds none when a connection is
\* handled.
C10_NoSyncCallbackAtRequestTime ==
    Connected => \A i \in 1..Len(routes) : routes[i].cb.is_async

----------------------------------------------------------------------------
(* The Request facade: body(), text(), json() and form() are coroutines    *)
(* and stream() is an asynchronous generator; a frame of the stack of a    *)
(* task is one of them, suspended or running.  Several tasks of the        *)
(* application may hold the Request, and the application may use it in the *)
(* body of a loop over stream().  The content type of the requests is not  *)
(* multipart/form-data.                                                    *)

\* The bytes of the bodies of the model: '1', '=' and a byte that is not UTF-8.
BodyBytes == {49, 61, 255}
BodyChunks == {<<>>} \cup {<<b>> : b \in BodyBytes}

\* An http.request event; has_body tells whether it has a 'body' key.
BodyEvent(has_body, body, more_body) ==
    [has_body |-> has_body, body |-> body, more_body |-> more_body]
BodyEvents(more_body) ==
    {BodyEvent(TRUE, c, more_body) : c \in BodyChunks} \cup {BodyEvent(FALSE, <<>>, more_body)}
\* what receive() gives once the body is over
Disconnect == BodyEvent(FALSE, <<>>, FALSE)

\* the body streams of a transport: every event but the last announces more
BodyStreams ==
    UNION {{s \in [1..n -> BodyEvents(TRUE) \cup BodyEvents(FALSE)] :
                \A i \in 1..n : s[i].more_body = (i < n)} : n \in 1..MaxChunks}

Charsets == {"utf-8", "bogus"}

\* await self.receive(): the next event of the transport
NextEvent == IF nrecv < Len(inbox) THEN inbox[nrecv + 1] ELSE Disconnect

\* message.get('body', b'')
GetBody(message) == IF message.has_body THEN message.body ELSE <<>>

\* b"".join(chunks)
RECURSIVE Join(_)
RECURSIVE JoinReversed(_)
JoinReversed(chunks) ==
    IF chunks = <<>> THEN <<>> ELSE JoinReversed(Tail(chunks)) \o Head(chunks)
Join(chunks) == IF chunks = <<>> THEN <<>> ELSE Head(chunks) \o Join(Tail(chunks))

\* whether bytes.decode looks the codec up: b'' is decoded to '' at once, unless
\* the interpreter runs in its development mode
LooksUp(body, dev_mode) == body # <<>> \/ dev_mode

\* body.decode(charset) raises LookupError or UnicodeDecodeError
DecodeFails(body, charset, dev_mode) ==
    \/ charset # "utf-8" /\ LooksUp(body, dev_mode)
    \/ \E i \in 1..Len(body) : body[i] > 127

\* body.decode(charset): the characters of the bytes
Decode(body) ==
    [i \in 1..Len(body) |-> CASE body[i] = 49 -> "1"
                               [] body[i] = 61 -> "="
                               [] OTHER -> "x"]

\* parse_qsl(qs=query, keep_blank_values=True), on a query without '%' and '+':
\* the fields between '&' that are not empty, each cut at its first '='
RECURSIVE Fields(_)
Fields(parts) ==
    IF parts = <<>> THEN <<>>
    ELSE LET nv == Partition(Head(parts), "=")
         IN  (IF Head(parts) = <<>> THEN <<>> ELSE <<<<nv[1], nv[3]>>>>) \o Fields(Tail(parts))
parse_qsl(query) == IF query = <<>> THEN <<>> ELSE Fields(Split(query, "&"))

\* loads(text) raises ValueError: the texts of the model that are JSON are 1, 11, ...
LoadsFails(text) == text = <<>> \/ \E i \in 1..Len(text) : text[i] # "1"

\* loads(text): the number the digits spell
RECURSIVE Loads(_)
Loads(text) == IF text = <<>> THEN 0 ELSE 10 * Loads(SubSeq(text, 1, Len(text) - 1)) + 1

\* if self._body is None, negated
BodyCachedUnlessEmpty(r) == r.has_body /\ r._body # <<>>
BodyCached(r) == r.has_body

\* process_decode(meta='json'): if meta not in self.meta, negated
InMeta(r) == r.has_json

\* process_decode(meta='form'): if meta not in self.meta, negated
FormInMeta(r) == r.has_form

MethodFrame(method) == [method |-> method, pc |-> "call", chunks |-> <<>>, ret |-> <<>>]

\* the tasks of the application that hold the Request; stack[t] is the frames of
\* task t, innermost last
Tasks == 1..MaxTasks

Front(s) == SubSeq(s, 1, Len(s) - 1)

TopOf(t) == Last(stack[t])

OnMethod(t, method, pc) == stack[t] # <<>> /\ TopOf(t).method = method /\ TopOf(t).pc = pc

\* the generator of a stream() the application iterates is suspended at a yield:
\* the application has the chunk and runs the body of its loop
AtYield(f) == f.method = "stream" /\ f.pc \in {"receive", "done"}

\* task t runs code of the application, not of the Request
InApplication(t) == IF stack[t] = <<>> THEN TRUE ELSE AtYield(TopOf(t))

\* task t is where the event loop may run another task: in the application, or
\* in await self.receive()
Suspended(t) ==
    IF stack[t] = <<>> THEN TRUE
    ELSE TopOf(t).method = "stream" \/ TopOf(t).pc = "receive"

\* task t runs: a coroutine runs without interruption from one await of receive()
\* to the next
Scheduled(t) == \A u \in Tasks \ {t} : Suspended(u)

\* stack with the top frame of task t replaced
SetTopOf(t, f) == [stack EXCEPT ![t] = [@ EXCEPT ![Len(@)] = f]]

\* an event of the facade: the depth of the stack of the task, the accessor, the
\* task and a value
FacadeEvent(ev, method, value) == Event(ev, Len(stack), method, 0, <<>>, {}, value)
TaskEvent(t, ev, method, value) == Event(ev, Len(stack[t]), method, t, <<>>, {}, value)

IsUserCall(e) == e.ev = "call"

\* how many accessors and iterations of stream() are under way, in all tasks:
\* every frame of every task, however deep the accessors call one another.  The
\* frame of a body() that waits in receive() stands for two: body() and the
\* generator of the stream() it iterates (async for chunk in self.stream()).
InProgress ==
    LET under_way(f) == IF f.method = "body" /\ f.pc = "receive" THEN 2 ELSE 1
    IN  Cardinality(UNION {UNION {{<<t, i, k>> : k \in 1..under_way(stack[t][i])} :
                                    i \in 1..Len(stack[t])} : t \in Tasks})

\* The application calls an accessor of the Request and awaits it, or starts to
\* iterate stream(): in a task that does nothing with the Request yet, or in the
\* body of a loop over stream().  The tasks are numbered as they come to call.
Call ==
    \E t \in Tasks :
        /\ Scheduled(t) /\ InApplication(t)
        /\ Len(SelectSeq(log, IsUserCall)) < MaxCalls
        /\ t > 1 => \E i \in 1..Len(log) : IsUserCall(log[i]) /\ log[i].scope = t - 1
        /\ \E method \in {"body", "text", "json", "form", "stream"} :
            /\ stack' = [stack EXCEPT ![t] = Append(@, MethodFrame(method))]
            /\ log' = Append(log, TaskEvent(t, "call", method, InProgress))
        /\ UNCHANGED <<config, chain, _startup, _shutdown, routes, objs, outcome, nrecv, req,
                       inbox>>

\* the frames an exception leaves: those above the application
RECURSIVE Unwind(_)
Unwind(s) == IF s = <<>> \/ AtYield(Last(s)) THEN s ELSE Unwind(Front(s))

\* an exception leaves the accessors of task t and reaches the application
Throw(t, error) ==
    /\ stack' = [stack EXCEPT ![t] = Unwind(Front(@))]
    /\ log' = Append(log, TaskEvent(t, "raise", error, 0))

\* Request.body up to the first receive(), and Request.stream's check of receive
body ==
    \E t \in Tasks :
        /\ Scheduled(t) /\ OnMethod(t, "body", "call")
        /\ IF BodyCached(req)
           THEN /\ stack' = SetTopOf(t, [TopOf(t) EXCEPT !.pc = "done", !.ret = req._body])
                /\ UNCHANGED log
           ELSE IF ~req.receive
                THEN Throw(t, "RuntimeError")
                ELSE /\ stack' = SetTopOf(t, [TopOf(t) EXCEPT !.pc = "receive",
                                                             !.chunks = <<>>])
                     /\ UNCHANGED log
        /\ UNCHANGED <<config, chain, _startup, _shutdown, routes, objs, outcome, nrecv, req,
                       inbox>>

\* Request.stream, iterated by body() or by the application: the check of receive,
\* then message = await self.receive(); yield message.get('body', b''); after the
\* last event body() joins the chunks and keeps them, the application keeps nothing
stream ==
    \E t \in Tasks :
        /\ Scheduled(t)
        /\ \/ OnMethod(t, "body", "receive")
           \/ OnMethod(t, "stream", "call")
           \/ OnMethod(t, "stream", "receive")
        /\ IF ~req.receive
           THEN /\ Throw(t, "RuntimeError")
                /\ UNCHANGED <<nrecv, req>>
           ELSE LET message == NextEvent
                    chunks == Append(TopOf(t).chunks, GetBody(message))
                    received == TaskEvent(t, "receive", TopOf(t).method, message)
                IN  /\ nrecv' = nrecv + 1
                    /\ IF TopOf(t).method = "body"
                       THEN /\ log' = Append(log, received)
                            /\ IF message.more_body
                               THEN /\ stack' = SetTopOf(t, [TopOf(t) EXCEPT !.chunks = chunks])
                                    /\ UNCHANGED req
                               ELSE /\ req' = [req EXCEPT !.has_body = TRUE,
                                                          !._body = Join(chunks)]
                                    /\ stack' = SetTopOf(t, [TopOf(t) EXCEPT
                                                               !.pc = "done",
                                                               !.chunks = chunks,
                                                               !.ret = Join(chunks)])
                       ELSE /\ log' = log \o <<received,
                                                TaskEvent(t, "yield", "stream",
                                                          GetBody(message))>>
                            /\ stack' = SetTopOf(t, [TopOf(t) EXCEPT
                                                       !.pc = IF message.more_body
                                                              THEN "receive" ELSE "done",
                                                       !.chunks = chunks])
                            /\ UNCHANGED req
        /\ UNCHANGED <<config, chain, _startup, _shutdown, routes, objs, outcome, inbox>>

\* The application leaves its loop over stream() at a yield before the last one:
\* the generator is not resumed.  At the last yield leaving the loop and ending it
\* come to the same.
Break ==
    \E t \in Tasks :
        /\ Scheduled(t) /\ OnMethod(t, "stream", "receive")
        /\ stack' = [stack EXCEPT ![t] = Front(@)]
        /\ log' = Append(log, TaskEvent(t, "break", "stream", 0))
        /\ UNCHANGED <<config, chain, _startup, _shutdown, routes, objs, outcome, nrecv, req,
                       inbox>>

\* await callee() of an accessor: the caller waits at pc `wait`
AwaitMethod(t, wait, method) ==
    stack' = [stack EXCEPT ![t] =
                Append([@ EXCEPT ![Len(@)] = [@ EXCEPT !.pc = wait]], MethodFrame(method))]

\* Request.text in process_decode(meta=None), which keeps no result: body = await
\* self.body()
text ==
    \E t \in Tasks :
        /\ Scheduled(t) /\ OnMethod(t, "text", "call")
        /\ AwaitMethod(t, "decode", "body")
        /\ UNCHANGED <<config, chain, _startup, _shutdown, routes, objs, outcome, log, nrecv,
                       req, inbox>>

\* Request.text: return body.decode(charset); a failure becomes ASGIDecodeError
TextDecode ==
    \E t \in Tasks :
        /\ Scheduled(t) /\ OnMethod(t, "text", "resume_decode")
        /\ LET data == TopOf(t).ret
               decoded == TaskEvent(t, "decode", req.charset, data)
           IN  IF DecodeFails(data, req.charset, req.dev_mode)
               THEN /\ stack' = [stack EXCEPT ![t] = Unwind(Front(@))]
                    /\ log' = log \o <<decoded, TaskEvent(t, "raise", "ASGIDecodeError", 0)>>
               ELSE /\ stack' = SetTopOf(t, [TopOf(t) EXCEPT !.pc = "done",
                                                            !.ret = Decode(data)])
                    /\ log' = Append(log, decoded)
        /\ UNCHANGED <<config, chain, _startup, _shutdown, routes, objs, outcome, nrecv, req,
                       inbox>>

\* Request.json in process_decode(meta='json'): the cached value, or text = await
\* self.text()
json ==
    \E t \in Tasks :
        /\ Scheduled(t) /\ OnMethod(t, "json", "call")
        /\ IF InMeta(req)
           THEN stack' = SetTopOf(t, [TopOf(t) EXCEPT !.pc = "done", !.ret = req.json])
           ELSE AwaitMethod(t, "loads", "text")
        /\ UNCHANGED <<config, chain, _startup, _shutdown, routes, objs, outcome, log, nrecv,
                       req, inbox>>

\* Request.json: self.meta['json'] = loads(text); a failure becomes ASGIDecodeError
JsonLoads ==
    \E t \in Tasks :
        /\ Scheduled(t) /\ OnMethod(t, "json", "resume_loads")
        /\ LET string == TopOf(t).ret
               loaded == TaskEvent(t, "loads", "", string)
           IN  IF LoadsFails(string)
               THEN /\ stack' = [stack EXCEPT ![t] = Unwind(Front(@))]
                    /\ log' = log \o <<loaded, TaskEvent(t, "raise", "ASGIDecodeError", 0)>>
                    /\ UNCHANGED req
               ELSE /\ req' = [req EXCEPT !.has_json = TRUE, !.json = Loads(string)]
                    /\ stack' = SetTopOf(t, [TopOf(t) EXCEPT !.pc = "done",
                                                            !.ret = Loads(string)])
                    /\ log' = Append(log, loaded)
        /\ UNCHANGED <<config, chain, _startup, _shutdown, routes, objs, outcome, nrecv, inbox>>

\* Request.form in process_decode(meta='form'): the cached value, or data = await
\* self.body()
form ==
    \E t \in Tasks :
        /\ Scheduled(t) /\ OnMethod(t, "form", "call")
        /\ IF FormInMeta(req)
           THEN stack' = SetTopOf(t, [TopOf(t) EXCEPT !.pc = "done", !.ret = req.form])
           ELSE AwaitMethod(t, "parse", "body")
        /\ UNCHANGED <<config, chain, _startup, _shutdown, routes, objs, outcome, log, nrecv,
                       req, inbox>>

\* Request.form: query = data.decode(self.charset); self.meta['form'] = the fields
\* of the query; a failure becomes ASGIDecodeError
FormParse ==
    \E t \in Tasks :
        /\ Scheduled(t) /\ OnMethod(t, "form", "resume_parse")
        /\ LET data == TopOf(t).ret
               decoded == TaskEvent(t, "decode", req.charset, data)
               fields == parse_qsl(Decode(data))
           IN  IF DecodeFails(data, req.charset, req.dev_mode)
               THEN /\ stack' = [stack EXCEPT ![t] = Unwind(Front(@))]
                    /\ log' = log \o <<decoded, TaskEvent(t, "raise", "ASGIDecodeError", 0)>>
                    /\ UNCHANGED req
               ELSE /\ req' = [req EXCEPT !.has_form = TRUE, !.form = fields]
                    /\ stack' = SetTopOf(t, [TopOf(t) EXCEPT !.pc = "done", !.ret = fields])
                    /\ log' = log \o <<decoded, TaskEvent(t, "parse_qsl", "", Decode(data))>>
        /\ UNCHANGED <<config, chain, _startup, _shutdown, routes, objs, outcome, nrecv, inbox>>

\* An accessor returns, or the generator of stream() ends: the accessor that awaits
\* it resumes with the value; the application just goes on.
Return ==
    \E t \in Tasks :
        /\ Scheduled(t) /\ stack[t] # <<>> /\ TopOf(t).pc = "done"
        /\ LET rest == Front(stack[t])
           IN  stack' = [stack EXCEPT ![t] =
                            IF rest = <<>> \/ AtYield(Last(rest)) THEN rest
                            ELSE [rest EXCEPT ![Len(rest)] =
                                    [@ EXCEPT !.ret = TopOf(t).ret,
                                              !.pc = CASE @ = "decode" -> "resume_decode"
                                                       [] @ = "parse" -> "resume_parse"
                                                       [] OTHER -> "resume_loads"]]]
        /\ log' = Append(log, TaskEvent(t, "return", TopOf(t).method, TopOf(t).ret))
        /\ UNCHANGED <<config, chain, _startup, _shutdown, routes, objs, outcome, nrecv, req,
                       inbox>>

InitRequest ==
    /\ \E receive \in BOOLEAN, charset \in Charsets, dev_mode \in BOOLEAN :
        /\ dev_mode => charset # "utf-8"
        /\ req = [RequestFields(receive, charset) EXCEPT !.dev_mode = dev_mode]
    /\ inbox \in BodyStreams
    /\ config = Config("Request", NoApp, <<>>, FALSE, <<>>, NoHandlers, NoHandlers, {})
    /\ chain = <<>>
    /\ _startup = <<>>
    /\ _shutdown = <<>>
    /\ routes = <<>>
    /\ objs = <<Scope("http", <<>>, <<"test">>, "GET")>>
    /\ stack = [t \in Tasks |-> <<>>]
    /\ outcome = Idle
    /\ log = <<>>
    /\ nrecv = 0

NextRequest ==
    \/ Call
    \/ body
    \/ stream
    \/ Break
    \/ text
    \/ TextDecode
    \/ json
    \/ JsonLoads
    \/ form
    \/ FormParse
    \/ Return

SpecRequest == InitRequest /\ [][NextRequest]_vars

----------------------------------------------------------------------------
(* The claims about the Request facade. *)

Count(ev) == Cardinality({i \in 1..Len(log) : log[i].ev = ev})

\* the accessors the application called, in order
UserCalls == LET c == SelectSeq(log, IsUserCall) IN [i \in 1..Len(c) |-> c[i].name]

\* where in the log a call of body() returns
BodyReturns == {i \in 1..Len(log) : log[i].ev = "return" /\ log[i].name = "body"}

\* a receive() made by body(), whoever called body()
IsBodyReceive(e) == e.ev = "receive" /\ e.name = "body"

\* the application iterated stream() itself
StreamIterated == \E i \in 1..Len(UserCalls) : UserCalls[i] = "stream"

\* no task is in an accessor or in a loop over stream()
Quiet == \A t \in Tasks : stack[t] = <<>>

\* the application made its calls one after the other: none while an accessor or a
\* loop over stream() was under way
Sequential == \A i \in 1..Len(log) : IsUserCall(log[i]) => log[i].value = 0

\* C7: when the calls on one Request are made one after the other, every call of
\* body() returns the same bytes, and body() drains the stream once: every
\* receive() of body() happens before the first return of body() and none after
\* it, also when the body is empty; unless the application iterates stream()
\* itself, each event of the stream is pulled once and nothing more.
C7_BodyDrainedOnce ==
    Sequential =>
        /\ \A i \in BodyReturns : \A j \in BodyReturns : log[i].value = log[j].value
        /\ \A i \in BodyReturns : \A k \in (i + 1)..Len(log) : ~IsBodyReceive(log[k])
        /\ (BodyReturns # {} /\ ~StreamIterated) =>
                nrecv = Len(inbox) /\ Count("receive") = Len(inbox)

C7_Witness ==
    /\ Sequential
    /\ UserCalls = <<"body", "body", "body">>
    /\ Cardinality(BodyReturns) = 3
    /\ Len(inbox) = 2 /\ req.has_body /\ req._body = <<>>

NothingRaised == Count("raise") = 0

JsonTextJson ==
    UserCalls = <<"json", "text", "json">> /\ Sequential /\ Quiet /\ NothingRaised

\* C8: json(), text() and json() again on one Request, made one after the other
\* on a body that decodes and parses, decode the body once and parse it once.
\* text is wrapped by process_decode without a key of self.meta, so what it
\* decodes is not kept.
C8_OneDecodeOfEachKind ==
    JsonTextJson => Count("decode") = 1 /\ Count("loads") = 1

----------------------------------------------------------------------------
(* The claims about what the canonical chain sends. *)

\* the messages the transport's send was given, in order
Sent == LET s == SelectSeq(log, IsSend) IN [i \in 1..Len(s) |-> s[i].value]

\* what the route callbacks of the connection returned
RouteReturns == {log[i].value : i \in {j \in 1..Len(log) : IsHandler(log[j]) /\ log[j].idx = 0}}

\* the response the convention makes of a mapping or a string
ConventionOf(v) ==
    ResponseValue(200, IF v.t = "dict" THEN "application/json" ELSE "text/plain", v.body)

HttpReturned ==
    Canonical /\ Finished /\ objs[1].type = "http" /\ outcome.status = "returned"

\* C11 as claimed: in the chain AppMiddleware builds, when the route callback of an
\* http connection returns a mapping or a string, send is given the start of a
\* response with status 200 and the content type of the kind of value
\* (application/json or text/plain), then the body that encodes the value.
C11_MappingOrStringIsSent ==
    HttpReturned =>
        \A v \in RouteReturns :
            v.t \in {"dict", "str"} => Sent = Messages(ConventionOf(v))

\* C11, amended: the convention holds for a mapping or a string that is not empty;
\* an empty mapping or an empty string is, like None, no response: nothing is sent
\* and the call returns None.
C11_NonEmptyIsSentEmptyIsNot ==
    HttpReturned =>
        \A v \in RouteReturns :
            v.t \in {"dict", "str"} =>
                /\ Sent = (IF v.body \in {"{}", ""} THEN <<>> ELSE Messages(ConventionOf(v)))
                /\ outcome = Returned(NoneValue)

C11_Witness ==
    /\ HttpReturned
    /\ config.middlewares # <<>>
    /\ DictValue("{\"a\": 1}") \in RouteReturns
    /\ Len(Sent) = 2 /\ Sent[1].status = 200 /\ Sent[1].ctype = "application/json"

\* the route that answers the connection
Hit == Lookup(routes, objs[1].root_path \o objs[1].path, objs[1].method)

\* C12: in the chain AppMiddleware builds, a websocket connection whose path
\* matches a registered route reaches the callback of that route, which is called
\* with a Request made of the scope of the connection.
C12_WebsocketReachesRoute ==
    (Canonical /\ Finished /\ objs[1].type = "websocket" /\ Hit.found) =>
        \E i \in 1..Len(log) :
            /\ IsHandler(log[i]) /\ log[i].idx = 0
            /\ log[i].name = Hit.cb.name
            /\ objs[log[i].scope].cls = "Request"

----------------------------------------------------------------------------
(* BaseMiddeware.__getattr__: before any connection, the attributes of the *)
(* stages of an application are read, and route() is called through them.  *)

\* how many times an attribute of the application is used
MaxAccess == 1

\* what every stage defines: the attributes of BaseMiddeware and self.app
BaseAttrs == {"app", "scopes", "bind", "setup"}

\* the attributes a stage or a handler defines itself, class and instance
OwnAttrs(stage) ==
    CASE stage.cls = "Lifespan" ->
            BaseAttrs \cup {"_startup", "_shutdown", "on_startup", "on_shutdown"}
      [] stage.cls = "Response" -> BaseAttrs \cup {"prepare_response_only"}
      [] stage.cls = "Router" -> BaseAttrs \cup {"pass_params_only", "router", "route"}
      [] stage.cls = "App" ->
            IF IsResponseInstance(stage) THEN {"status_code"} ELSE {"__name__"}
      [] OTHER -> BaseAttrs

\* the names the model reads
AttrNames == {"route", "prepare_response_only", "on_startup", "status_code", "scopes", "missing"}

\* An attribute, as the place in the chain of the object that holds it; a lookup
\* that finds none raises AttributeError, place 0.
Attribute(owner) ==
    Value(IF owner = 0 THEN "AttributeError" ELSE "attribute", owner, "", "")

RECURSIVE getattr(_, _, _)

\* BaseMiddeware.__getattr__, called when the stage does not define the name
GetattrOfTerminal(ch, i, name) == getattr(ch, Len(ch), name)
__getattr__(ch, i, name) == getattr(ch, i + 1, name)

\* getattr(ch[i], name): the place of the object whose attribute is the result
getattr(ch, i, name) ==
    IF name \in OwnAttrs(ch[i]) THEN i
    ELSE IF ch[i].cls = "App" THEN 0
    ELSE __getattr__(ch, i, name)

IsAccess(e) == e.ev \in {"getattr", "route", "ValueError", "AttributeError"}

\* the stages of the application, the terminal handler excluded
Stages == 1..(Len(chain) - 1)

\* stage.name is read, stage being any stage of the application
Access ==
    /\ outcome = Idle
    /\ Len(SelectSeq(log, IsAccess)) < MaxAccess
    /\ \E k \in Stages, name \in AttrNames :
        log' = Append(log, Event("getattr", k, name, 0, <<>>, {},
                                 Attribute(getattr(chain, k, name))))
    /\ UNCHANGED <<req, inbox, config, chain, _startup, _shutdown, routes, objs, stack, outcome,
                   nrecv>>

\* stage.route(path, methods=...)(cb), stage being any stage of the application: the
\* route attribute is looked up, then RouterMiddleware.route runs on the stage found
app_route ==
    /\ outcome = Idle
    /\ Len(SelectSeq(log, IsAccess)) < MaxAccess
    /\ \E k \in Stages, pattern \in Patterns, cb \in Callbacks :
        LET owner == getattr(chain, k, "route")
        IN  IF owner = 0
            THEN /\ log' = Append(log, Event("AttributeError", k, "route", 0, <<>>, {},
                                             Attribute(owner)))
                 /\ UNCHANGED routes
            ELSE IF RouteAccepts(cb)
            THEN /\ routes' = AddRoute(routes, pattern, AnyMethod, cb)
                 /\ log' = Append(log, Event("route", k, cb.name, 0, <<>>, {},
                                             Attribute(owner)))
            ELSE /\ log' = Append(log, Event("ValueError", k, cb.name, 0, <<>>, {},
                                             Attribute(owner)))
                 /\ UNCHANGED routes
    /\ UNCHANGED <<req, inbox, config, chain, _startup, _shutdown, objs, stack, outcome, nrecv>>

\* the applications whose attributes are read
AttrConfigs ==
    {c \in ChainConfigs : c.routes = <<>> /\ c.on_startup = NoHandlers}

InitAttr == \E c \in AttrConfigs : InitFrom(c)

NextAttr ==
    \/ Access
    \/ app_route

SpecAttr == InitAttr /\ [][NextAttr]_vars

\* the objects that define name, from stage k inwards
Definers(k, name) == {j \in k..Len(chain) : name \in OwnAttrs(chain[j])}

\* the nearest of them, 0 if there is none
Nearest(k, name) ==
    LET d == Definers(k, name)
    IN  IF d = {} THEN 0 ELSE CHOOSE j \in d : \A m \in d : j <= m

\* C13: a name read on a stage gives the attribute of the first object, from that
\* stage inwards, that defines the name, and AttributeError if none does; route()
\* called on any stage of the chain AppMiddleware builds is the route() of the
\* routing stage, the innermost one, and registers the callback in its table.
C13_AttributeOfNearestInner ==
    /\ \A i \in 1..Len(log) :
        /\ log[i].ev = "getattr" =>
                log[i].value = Attribute(Nearest(log[i].idx, log[i].name))
        /\ log[i].ev \in {"route", "ValueError", "AttributeError"} =>
                log[i].value = Attribute(Nearest(log[i].idx, "route"))
        /\ (Canonical /\ log[i].ev = "route") =>
                /\ log[i].value.status = Len(chain) - 1
                /\ chain[log[i].value.status].cls = "Router"
                /\ Last(routes).cb.name = log[i].name
    /\ Len(routes) = Cardinality({i \in 1..Len(log) : log[i].ev = "route"})

C13_Witness ==
    /\ Canonical /\ Len(config.middlewares) = 2
    /\ \E i \in 1..Len(log) : log[i].ev = "route" /\ log[i].idx = 1
    /\ Len(routes) = 1 /\ routes[1].cb = AsyncHandler

----------------------------------------------------------------------------
(* The headers of a Request.  A string is the sequence of its characters,  *)
(* a dict the sequence of its items in insertion order.                    *)

\* how many characters a header of the model has
MaxHeader == 4

\* s.strip()
RECURSIVE Strip(_)
Strip(s) ==
    IF s # <<>> /\ Head(s) = " " THEN Strip(Tail(s))
    ELSE IF s # <<>> /\ Last(s) = " " THEN Strip(SubSeq(s, 1, Len(s) - 1))
    ELSE s

\* http.cookies._unquote, on a value without backslashes: the quotes around it go
_unquote(s) ==
    IF Len(s) < 2 \/ s[1] # "\"" \/ s[Len(s)] # "\"" THEN s
    ELSE SubSeq(s, 2, Len(s) - 1)

\* data[key] = value
SetItem(data, key, value) ==
    IF \E i \in 1..Len(data) : data[i][1] = key
    THEN [i \in 1..Len(data) |-> IF data[i][1] = key THEN <<key, value>> ELSE data[i]]
    ELSE Append(data, <<key, value>>)

Keys(data) == {data[i][1] : i \in 1..Len(data)}

\* A header of the scope, which may be absent.
Header(present, value) == [present |-> present, value |-> value]
NoHeader == Header(FALSE, <<>>)

\* self.headers.get(name, default)
Get(header, default) == IF header.present THEN header.value ELSE default

\* the strings over an alphabet, up to the length of the model
Strings(alphabet) == UNION {[1..n -> alphabet] : n \in 0..MaxHeader}

----------------------------------------------------------------------------
(* Request.cookies *)

CookieChars == {"a", "=", ";", " ", "\""}
CookieHeaders == {NoHeader} \cup {Header(TRUE, s) : s \in Strings(CookieChars)}

\* the loop of Request.cookies over the chunks of the header
RECURSIVE CookieLoop(_, _)
CookieLoop(chunks, data) ==
    IF chunks = <<>> THEN data
    ELSE LET p == Partition(Head(chunks), "=")
         IN  CookieLoop(Tail(chunks), SetItem(data, Strip(p[1]), _unquote(Strip(p[3]))))

\* Request.cookies, computed
ParseCookies(header) == CookieLoop(Split(Get(header, <<>>), ";"), <<>>)

\* The Request of the model of cookies: its cookie header, and the value that
\* cached_property keeps once the property was read.
CookieRequest(header) == [cookie |-> header, cached |-> FALSE, cookies |-> <<>>]

\* request.cookies is read
cookies ==
    /\ Len(log) < MaxCalls
    /\ LET data == IF req.cached THEN req.cookies ELSE ParseCookies(req.cookie)
       IN  /\ req' = [req EXCEPT !.cached = TRUE, !.cookies = data]
           /\ log' = Append(log, FacadeEvent("return", "cookies", data))
    /\ UNCHANGED <<config, chain, _startup, _shutdown, routes, objs, stack, outcome, nrecv, inbox>>

InitCookies ==
    /\ \E header \in CookieHeaders : req = CookieRequest(header)
    /\ config = Config("Request", NoApp, <<>>, FALSE, <<>>, NoHandlers, NoHandlers, {})
    /\ chain = <<>>
    /\ _startup = <<>>
    /\ _shutdown = <<>>
    /\ routes = <<>>
    /\ objs = <<Scope("http", <<>>, <<"test">>, "GET")>>
    /\ stack = <<>>
    /\ outcome = Idle
    /\ log = <<>>
    /\ nrecv = 0
    /\ inbox = <<>>

NextCookies == cookies

SpecCookies == InitCookies /\ [][NextCookies]_vars

\* the chunks of the cookie header, and the name and the value of chunk i
Chunks == Split(Get(req.cookie, <<>>), ";")
NameOf(i) == Strip(Partition(Chunks[i], "=")[1])
ValueOf(i) == _unquote(Strip(Partition(Chunks[i], "=")[3]))

\* the cookie names the header has: a chunk that is empty or blank names no cookie
NamesPresent ==
    IF ~req.cookie.present THEN {}
    ELSE {NameOf(i) : i \in {j \in 1..Len(Chunks) : Strip(Chunks[j]) # <<>>}}

\* C14: the keys of cookies() are the cookie names of the cookie header, each with
\* the value of its last occurrence; without a cookie header the mapping is empty.
C14_CookiesOfHeader ==
    \A k \in 1..Len(log) :
        LET data == log[k].value
        IN  /\ Keys(data) = NamesPresent
            /\ \A n \in 1..Len(data) :
                \E i \in 1..Len(Chunks) :
                    /\ NameOf(i) = data[n][1] /\ ValueOf(i) = data[n][2]
                    /\ \A j \in (i + 1)..Len(Chunks) : NameOf(j) # data[n][1]
            /\ ~req.cookie.present => data = <<>>

----------------------------------------------------------------------------
(* Request.url *)

HostChars == {"h", ":", "8"}
HostHeaders == {NoHeader} \cup {Header(TRUE, s) : s \in Strings(HostChars)}

\* scope['server']: None, or the host and the port the transport listens on
Server(present, host, port) == [present |-> present, host |-> host, port |-> port]
NoServer == Server(FALSE, <<>>, 0)
Servers == {NoServer, Server(TRUE, <<"s">>, 80), Server(TRUE, <<"h">>, 8000)}

\* a value that may be None
Some(value) == [none |-> FALSE, value |-> value]
None(default) == [none |-> TRUE, value |-> default]

\* what URL.build is given and keeps
URL(host, port) == [scheme |-> "http", host |-> host, port |-> port]

\* The Request of the model of url: scope['server'], the host header, and the value
\* that cached_property keeps once the property was read.
UrlRequest(server, header) ==
    [server |-> server, host |-> header, cached |-> FALSE, url |-> URL(<<>>, None(0))]

\* Request.url, computed: the error it raises, or the URL.  With no host at all
\* None.partition raises AttributeError inside the property, so the attribute
\* lookup falls back to Request.__getattr__, and self['url'] raises KeyError.
BuildUrl(r) ==
    LET port == IF r.server.present THEN Some(r.server.port) ELSE None(0)
        header == Get(r.host, <<>>)
        host == IF header # <<>> THEN Some(header)
                ELSE IF r.server.present THEN Some(r.server.host) ELSE None(<<>>)
    IN  IF host.none THEN [error |-> "KeyError", url |-> URL(<<>>, None(0))]
        ELSE IF Partition(host.value, ":")[1] = <<>> /\ ~port.none
        THEN [error |-> "ValueError", url |-> URL(<<>>, None(0))]
        ELSE [error |-> "", url |-> URL(Partition(host.value, ":")[1], port)]

\* request.url is read
url ==
    /\ Len(log) < MaxCalls
    /\ IF req.cached
       THEN /\ log' = Append(log, FacadeEvent("return", "url", req.url))
            /\ UNCHANGED req
       ELSE LET built == BuildUrl(req)
            IN  IF built.error # ""
                THEN /\ log' = Append(log, FacadeEvent("raise", built.error, built.url))
                     /\ UNCHANGED req
                ELSE /\ log' = Append(log, FacadeEvent("return", "url", built.url))
                     /\ req' = [req EXCEPT !.cached = TRUE, !.url = built.url]
    /\ UNCHANGED <<config, chain, _startup, _shutdown, routes, objs, stack, outcome, nrecv, inbox>>

InitUrl ==
    /\ \E server \in Servers, header \in HostHeaders : req = UrlRequest(server, header)
    /\ config = Config("Request", NoApp, <<>>, FALSE, <<>>, NoHandlers, NoHandlers, {})
    /\ chain = <<>>
    /\ _startup = <<>>
    /\ _shutdown = <<>>
    /\ routes = <<>>
    /\ objs = <<Scope("http", <<>>, <<"test">>, "GET")>>
    /\ stack = <<>>
    /\ outcome = Idle
    /\ log = <<>>
    /\ nrecv = 0
    /\ inbox = <<>>

NextUrl == url

SpecUrl == InitUrl /\ [][NextUrl]_vars

\* the number a string of digits spells
RECURSIVE IntOf(_)
IntOf(digits) ==
    IF digits = <<>> THEN 0 ELSE 10 * IntOf(SubSeq(digits, 1, Len(digits) - 1)) + 8

\* the host header has the form host:port
HostAndPort(h) ==
    /\ Find(h, ":") > 1 /\ Find(h, ":") < Len(h)
    /\ \A i \in 1..Len(h) : i # Find(h, ":") => h[i] # ":"
    /\ \A i \in (Find(h, ":") + 1)..Len(h) : h[i] = "8"

\* C15: the host of url() is the host of the host header when the request has one,
\* else the host of the server; the port is the port of the host header when that
\* has the form host:port, and the port of the server only when it has not.
C15_UrlHostAndPort ==
    \A k \in 1..Len(log) :
        log[k].ev = "return" =>
            LET u == log[k].value
                h == Get(req.host, <<>>)
            IN  /\ u.host = IF h # <<>> THEN Partition(h, ":")[1] ELSE req.server.host
                /\ u.port = IF HostAndPort(h) THEN Some(IntOf(Partition(h, ":")[3]))
                            ELSE IF req.server.present THEN Some(req.server.port)
                            ELSE None(0)

----------------------------------------------------------------------------
(* parse_options_header.  The header is given as OPTION_HEADER_PIECE_RE    *)
(* reads it: the primary token, then the pieces the expression matches in  *)
(* turn, each with its groups.                                             *)

\* how many pieces follow the primary token of a header
MaxPieces == 2

\* The groups of one match: key, count, encoding and value; count and encoding are
\* '' where the group is None, value may be None.
Piece(option, count, encoding, value) ==
    [matched |-> TRUE, option |-> option, count |-> count, encoding |-> encoding,
     value |-> value]
\* a rest of the header the expression does not match
Junk == [matched |-> FALSE, option |-> "", count |-> "", encoding |-> "", value |-> None(<<>>)]

\* the values of the model: foo, bar, "foo", a value with a trailing blank, an
\* escaped quote behind an escaped backslash
OptionValues ==
    {<<"f">>, <<"b">>, <<"\"", "f", "\"">>, <<"b", " ">>, <<"\\", "\\", "\\", "\"">>}

Pieces ==
    {Piece(o, c, "", Some(v)) : o \in {"key", "charset"}, c \in {"", "0", "1"}, v \in OptionValues}
    \cup {Piece("key", "", e, Some(<<"%", "6", "2">>)) : e \in {"utf-8", "bogus"}}
    \cup {Piece("key", "", "", None(<<>>)), Junk}

\* The header: its text before the first ';', and what follows it if it has a ';'.
OptionsHeader(ctype, has_rest, rest) == [ctype |-> ctype, has_rest |-> has_rest, rest |-> rest]
OptionsHeaders ==
    {OptionsHeader(c, FALSE, <<>>) : c \in {"", "text/plain"}}
    \cup {OptionsHeader("text/plain", TRUE, r) : r \in SeqsUpTo(Pieces, MaxPieces)}

\* unquote_to_bytes(value).decode(encoding): %62 is b, %66 is f
RECURSIVE PercentDecode(_)
PercentDecode(s) ==
    IF s = <<>> THEN <<>>
    ELSE IF Len(s) >= 3 /\ s[1] = "%" /\ s[2] = "6" /\ s[3] \in {"2", "6"}
    THEN <<IF s[3] = "2" THEN "b" ELSE "f">> \o PercentDecode(SubSeq(s, 4, Len(s)))
    ELSE <<Head(s)>> \o PercentDecode(Tail(s))

\* value.strip(chars)
RECURSIVE StripChars(_, _)
StripChars(s, chars) ==
    IF s # <<>> /\ Head(s) \in chars THEN StripChars(Tail(s), chars)
    ELSE IF s # <<>> /\ Last(s) \in chars THEN StripChars(SubSeq(s, 1, Len(s) - 1), chars)
    ELSE s

\* value.replace(a + b, to), a and b being characters
RECURSIVE ReplacePair(_, _, _, _)
ReplacePair(s, a, b, to) ==
    IF s = <<>> THEN <<>>
    ELSE IF Len(s) >= 2 /\ s[1] = a /\ s[2] = b
    THEN <<to>> \o ReplacePair(SubSeq(s, 3, Len(s)), a, b, to)
    ELSE <<Head(s)>> \o ReplacePair(Tail(s), a, b, to)

\* value.strip('" ').replace("\\\\", "\\").replace('\\"', '"')
Unescape(value) ==
    ReplacePair(ReplacePair(StripChars(value, {"\"", " "}), "\\", "\\", "\\"), "\\", "\"", "\"")

\* options.get(option, "")
GetItem(data, key, default) ==
    IF \E i \in 1..Len(data) : data[i][1] = key
    THEN data[CHOOSE i \in 1..Len(data) : data[i][1] = key][2]
    ELSE default

\* if count: options.get(option, "") is what the value is appended to
Continued(options, piece) ==
    IF piece.count # "" THEN GetItem(options, piece.option, <<>>) ELSE <<>>

Parsed(error, ctype, options) == [error |-> error, ctype |-> ctype, options |-> options]

\* the while loop of parse_options_header
RECURSIVE OptionsLoop(_, _, _)
OptionsLoop(ctype, rest, options) ==
    IF rest = <<>> \/ ~Head(rest).matched THEN Parsed("", ctype, options)
    ELSE LET piece == Head(rest)
         IN  IF piece.value.none THEN Parsed("AttributeError", ctype, options)
             ELSE IF piece.encoding = "bogus" THEN Parsed("LookupError", ctype, options)
             ELSE LET decoded == IF piece.encoding # "" THEN PercentDecode(piece.value.value)
                                 ELSE piece.value.value
                      value == Continued(options, piece) \o decoded
                  IN  OptionsLoop(ctype, Tail(rest),
                                  SetItem(options, piece.option, Unescape(value)))

\* parse_options_header(value)
ParseOptionsHeader(header) ==
    IF ~header.has_rest THEN Parsed("", header.ctype, <<>>)
    ELSE OptionsLoop(header.ctype, header.rest, <<>>)

\* parse_options_header is called with the header
parse_options_header ==
    /\ log = <<>>
    /\ LET got == ParseOptionsHeader(config)
       IN  log' = <<Note(IF got.error = "" THEN "return" ELSE "raise", got.error, got)>>
    /\ UNCHANGED <<req, inbox, config, chain, _startup, _shutdown, routes, objs, stack, outcome,
                   nrecv>>

InitOptions ==
    /\ config \in OptionsHeaders
    /\ chain = <<>>
    /\ _startup = <<>>
    /\ _shutdown = <<>>
    /\ routes = <<>>
    /\ objs = <<>>
    /\ stack = <<>>
    /\ outcome = Idle
    /\ log = <<>>
    /\ nrecv = 0
    /\ req = NoRequest
    /\ inbox = <<>>

NextOptions == parse_options_header

SpecOptions == InitOptions /\ [][NextOptions]_vars

\* the fragments of key in the header, and the one with index n
Fragments(key) == {i \in 1..Len(config.rest) : config.rest[i].option = key}
IndexOf(i) == IF config.rest[i].count = "0" THEN 0 ELSE 1
FragmentAt(key, n) == CHOOSE i \in Fragments(key) : IndexOf(i) = n

\* the values of the fragments 0..n-1 of key, joined in the order of the indices
RECURSIVE InIndexOrder(_, _)
InIndexOrder(key, n) ==
    IF n = 0 THEN <<>>
    ELSE InIndexOrder(key, n - 1) \o config.rest[FragmentAt(key, n - 1)].value.value

\* every piece of the header is a continuation fragment with a plain value, and the
\* fragments of each key carry the indices 0, 1, ... once each
OnlyContinuations ==
    /\ config.has_rest /\ config.rest # <<>>
    /\ \A i \in 1..Len(config.rest) :
        /\ config.rest[i].matched /\ config.rest[i].count # "" /\ config.rest[i].encoding = ""
        /\ ~config.rest[i].value.none /\ config.rest[i].value.value \in {<<"f">>, <<"b">>}
        /\ \A n \in 0..(Cardinality(Fragments(config.rest[i].option)) - 1) :
            \E j \in Fragments(config.rest[i].option) : IndexOf(j) = n
        /\ IndexOf(i) < Cardinality(Fragments(config.rest[i].option))

\* C16: the continuation fragments key*0, key*1, ... of a key are joined in the
\* order of their indices into the one value of the option, in whatever order the
\* header lists them.
C16_ContinuationsInIndexOrder ==
    (log # <<>> /\ OnlyContinuations) =>
        /\ log[1].ev = "return"
        /\ \A i \in 1..Len(config.rest) :
            LET key == config.rest[i].option
            IN  GetItem(log[1].value.options, key, <<>>)
                    = InIndexOrder(key, Cardinality(Fragments(key)))

----------------------------------------------------------------------------
(* The claims about the states of the lifespan loop. *)

\* the signal the loop handles when event i of the log happens: the last received
PhaseOf(i) ==
    LET before == {j \in 1..i : IsReceive(log[j])}
    IN  IF before = {} THEN ""
        ELSE log[CHOOSE j \in before : \A k \in before : k <= j].value.t

\* where in the log a callback of the phase of `signal` runs
Runs(signal) == {i \in 1..Len(log) : IsCallback(log[i]) /\ PhaseOf(i) = signal}

\* where in the log the acknowledgment `type` is sent
Acks(type) == {i \in 1..Len(log) : IsSend(log[i]) /\ log[i].value.t = type}

\* C17: whatever signals a lifespan connection delivers, a startup signal more than
\* once included, every registered startup callback runs at most once and at most
\* one 'startup complete' is sent.
C17_StartupAtMostOnce ==
    /\ Cardinality(Runs("lifespan.startup")) <= Len(_startup)
    /\ Cardinality(Acks("lifespan.startup.complete")) <= 1

\* C18: the stage goes from idle to started to stopped: a shutdown callback runs,
\* and 'shutdown complete' is sent, only after a startup signal was handled and
\* acknowledged on the connection; a shutdown signal in the idle state does neither.
C18_ShutdownOnlyAfterStartup ==
    \A i \in Runs("lifespan.shutdown") \cup Acks("lifespan.shutdown.complete") :
        \E j \in Acks("lifespan.startup.complete") : j < i

----------------------------------------------------------------------------
(* The claim about the bytes of body(). *)

\* the place in the stream of the first event that announces no more body
FirstFinal ==
    CHOOSE i \in 1..Len(inbox) : ~inbox[i].more_body /\ \A j \in 1..(i - 1) : inbox[j].more_body

\* the bytes of the first n events of the stream, in order; an event without a
\* body has none
RECURSIVE BytesUpTo(_)
BytesUpTo(n) ==
    IF n = 0 THEN <<>>
    ELSE BytesUpTo(n - 1) \o (IF inbox[n].has_body THEN inbox[n].body ELSE <<>>)

\* the events receive() gave, in order
Pulled == LET r == SelectSeq(log, IsReceive) IN [i \in 1..Len(r) |-> r[i].value]

\* the k-th event receive() gives: the events of the stream, then the disconnect
Arriving(k) == IF k <= Len(inbox) THEN inbox[k] ELSE Disconnect

\* the events receive() gave to body(), in order
PulledByBody ==
    LET r == SelectSeq(log, IsBodyReceive) IN [i \in 1..Len(r) |-> r[i].value]

\* the bytes of some events, in order
RECURSIVE BytesOf(_)
BytesOf(events) ==
    IF events = <<>> THEN <<>>
    ELSE BytesOf(SubSeq(events, 1, Len(events) - 1))
         \o (IF Last(events).has_body THEN Last(events).body ELSE <<>>)

\* C19: body() returns the bytes of the events it pulls, which are the events
\* receive() has up to and with the first one that announces no more body, joined
\* in the order of arrival, an event without a body giving none; the events are
\* pulled in that order, at least one is pulled, and none after that event.  This
\* is said of calls made one after the other; on a Request whose stream() the
\* application does not iterate itself the events are those of the stream from
\* its first.
C19_BodyIsChunksInOrder ==
    /\ \A k \in 1..Len(Pulled) : Pulled[k] = Arriving(k)
    /\ Sequential =>
        /\ \A k \in 1..(Len(PulledByBody) - 1) : PulledByBody[k].more_body
        /\ \A i \in BodyReturns :
            /\ Len(PulledByBody) >= 1
            /\ ~Last(PulledByBody).more_body
            /\ log[i].value = BytesOf(PulledByBody)
    /\ (Sequential /\ ~StreamIterated) =>
        /\ IsPrefix(Pulled, SubSeq(inbox, 1, FirstFinal))
        /\ \A i \in BodyReturns :
            /\ log[i].value = BytesUpTo(FirstFinal)
            /\ Pulled = SubSeq(inbox, 1, FirstFinal)
            /\ nrecv = FirstFinal

C19_Witness ==
    /\ Sequential
    /\ BodyReturns # {}
    /\ Len(inbox) = 2 /\ req._body = <<49, 61>>
    /\ Len(Pulled) = 2

----------------------------------------------------------------------------
(* The claim about the two response stages of the canonical chain. *)

\* the places in the chain AppMiddleware builds of the response stage that sends
\* and of the one that only prepares
OuterResponse == 3
InnerResponse == Len(chain) - 2

\* the messages stage idx gave to send, in order
SentBy(idx) ==
    LET from(e) == IsSend(e) /\ e.idx = idx
        s == SelectSeq(log, from)
    IN  [i \in 1..Len(s) |-> s[i].value]

\* what the handlers that were awaited returned: a callback that is no coroutine
\* function returns nothing to await
HandlerReturns ==
    {log[i].value : i \in {j \in 1..Len(log) : IsHandler(log[j])
                                                /\ log[j].name # SyncHandler.name}}

\* C20: in the chain AppMiddleware builds, the inner response stage, which only
\* prepares, never calls send; the outer one sends the messages of the prepared
\* response, each once and in order, and nothing else is sent; when the handler
\* returns None the response stages send nothing and no error is raised (a handler
\* that is a response called as an application sends itself and returns None).
C20_OnlyOuterStageSends ==
    (Canonical /\ Connected) =>
        /\ chain[OuterResponse].cls = "Response" /\ ~chain[OuterResponse].prepare_response_only
        /\ chain[InnerResponse].cls = "Response" /\ chain[InnerResponse].prepare_response_only
        /\ SentBy(InnerResponse) = <<>>
        /\ objs[1].type = "http" =>
            /\ \A i \in 1..Len(log) :
                IsSend(log[i]) =>
                    log[i].idx = OuterResponse \/ IsResponseInstance(chain[log[i].idx])
            /\ \A v \in HandlerReturns :
                /\ IsPrefix(SentBy(OuterResponse),
                            IF Truthy(v) THEN Messages(parse_response(v)) ELSE <<>>)
                /\ outcome.status # "raised"
                /\ outcome.status = "returned" =>
                    /\ Truthy(v) => Sent = Messages(parse_response(v))
                    /\ outcome = Returned(NoneValue)

C20_Witness ==
    /\ HttpReturned
    /\ Len(config.middlewares) = 2
    /\ ResponseValue(200, "text/html", "OK") \in HandlerReturns
    /\ Len(SentBy(OuterResponse)) = 2 /\ Sent = SentBy(OuterResponse)

----------------------------------------------------------------------------
(* The Request facade under cancellation: the task that awaits an accessor *)
(* may be cancelled, or receive() may fail, while body() is suspended in   *)
(* receive().                                                              *)

\* await self.receive() raises in Request.stream: CancelledError is thrown into
\* the task (an error of the transport leaves the accessors the same way); no
\* frame of the Request catches it, body() keeps nothing
Cancel ==
    \E t \in Tasks :
        /\ Scheduled(t)
        /\ \/ OnMethod(t, "body", "receive")
           \/ OnMethod(t, "stream", "receive")
           \/ OnMethod(t, "stream", "call") /\ req.receive
        /\ Throw(t, "CancelledError")
        /\ UNCHANGED <<config, chain, _startup, _shutdown, routes, objs, outcome, nrecv, req,
                       inbox>>

NextRequestCancel ==
    \/ Call
    \/ body
    \/ stream
    \/ Break
    \/ Cancel
    \/ text
    \/ TextDecode
    \/ json
    \/ JsonLoads
    \/ form
    \/ FormParse
    \/ Return

\* a Request that has a receive and the default charset, with a body that decodes
InitRequestCancel ==
    /\ InitRequest
    /\ req.receive /\ req.charset = "utf-8"
    /\ \A i \in 1..Len(inbox) : ~DecodeFails(inbox[i].body, req.charset, req.dev_mode)

SpecRequestCancel == InitRequestCancel /\ [][NextRequestCancel]_vars

\* the bytes of all the events of the stream
CompleteBody == BytesUpTo(Len(inbox))

\* C21: whatever calls of body() are made, one after the other (stream() being
\* iterated by body() alone), and wherever they are interrupted while suspended
\* in receive(),
\* self._body is unset or holds the bytes of the whole stream, and body() returns
\* nothing but those bytes.
C21_CacheUnsetOrComplete ==
    (Sequential /\ ~StreamIterated) =>
        /\ req.has_body => req._body = CompleteBody
        /\ \A i \in BodyReturns : log[i].value = CompleteBody

====
